---- MODULE Spec2Model ----
(***************************************************************************)
(* RapidResponse: the emergency intake pipeline (main.py report_emergency  *)
(* and EmergencyCoordinator.process_emergency), the emergency lifecycle    *)
(* (main.py update_emergency), the notification stub and the pure          *)
(* required-service resolver (EmergencyClassifier.get_required_services).  *)
(*                                                                         *)
(* Conventions.  Python None is the string "None" for string-valued        *)
(* fields and the empty sequence <<>> for every other optional value, a    *)
(* present value x being <<x>>.  A confidence is an integer number of      *)
(* hundredths (0.8 is 80).  Time is counted in ticks of TickSeconds        *)
(* seconds.  A provider call that can raise is an existential choice       *)
(* between its results and a failure.                                      *)
(***************************************************************************)
EXTENDS Integers, Sequences, FiniteSets, TLC

VARIABLES
    emergencies,     \* committed rows of table "emergencies", in insertion order
    status_updates,  \* committed rows of table "emergency_status_updates"
    published,       \* calls of NotificationService.send_notification, in order
    req,             \* the report_emergency request in flight: the handler's locals
    upd,             \* the update_emergency request answered last, if no report followed
    now,             \* the wall clock, in ticks
    nreports,        \* number of report requests received so far
    nupdates,        \* number of update requests received so far
    rs_in,           \* resolver check: the arguments of get_required_services
    rs_out,          \* resolver check: its result, <<>> before the call
    subscriptions,   \* committed rows of table "notification_subscriptions"
    notifications,   \* committed rows of table "notifications"
    ws,              \* the websocket_endpoint call handled last
    inbox,           \* the get_notifications call answered last
    enrich,          \* the get_emergency_context call in progress: its coroutines
    mini,            \* minimal server: the report_emergency call answered last
    http             \* the request routed last: the route taken and the answer

vars == <<emergencies, status_updates, published, req, upd, now, nreports,
          nupdates, rs_in, rs_out, subscriptions, notifications, ws, inbox,
          enrich, mini, http>>

(* the state of the notification endpoints *)
notif_vars == <<subscriptions, notifications, ws, inbox>>

----------------------------------------------------------------------------
(* Bounds of the model *)

MaxReports == 2

MaxUpdates == 2

MaxClock == 1

MaxSubscriptions == 2

(* Program constants *)

EscalationThreshold == 80

TickSeconds == 90

SecondsPerMinute == 60

----------------------------------------------------------------------------
(* Optional values *)

None == <<>>

Some(x) == <<x>>

Truthy(s) == s \notin {"None", ""}

----------------------------------------------------------------------------
(* EmergencyClassifier *)

ClassifierTypes == {"FIRE", "MEDICAL", "CRIME", "NATURAL_DISASTER", "TRAFFIC", "OTHER"}

priority_mapping ==
    [t \in ClassifierTypes |->
        CASE t \in {"FIRE", "MEDICAL", "CRIME", "NATURAL_DISASTER"} -> "HIGH"
          [] t = "TRAFFIC" -> "MEDIUM"
          [] OTHER -> "LOW"]

Services == {"fire", "medical", "police", "rescue"}

(* mutant: the last branch is a plain else, so any other type is TRAFFIC *)
BaseServices_ElseTraffic(emergency_type) ==
    CASE emergency_type = "FIRE" -> {"fire"}
      [] emergency_type = "MEDICAL" -> {"medical"}
      [] emergency_type = "CRIME" -> {"police"}
      [] emergency_type = "NATURAL_DISASTER" -> {"rescue", "fire", "medical"}
      [] OTHER -> {"police", "medical"}

BaseServices(emergency_type) ==
    CASE emergency_type = "FIRE" -> {"fire"}
      [] emergency_type = "MEDICAL" -> {"medical"}
      [] emergency_type = "CRIME" -> {"police"}
      [] emergency_type = "NATURAL_DISASTER" -> {"rescue", "fire", "medical"}
      [] emergency_type = "TRAFFIC" -> {"police", "medical"}
      [] OTHER -> {}

(* mutant: the escalation test is confidence >= 0.8 *)
EscalatedServices_Inclusive(emergency_type, confidence) ==
    IF confidence >= EscalationThreshold
    THEN CASE emergency_type = "FIRE" -> {"rescue", "medical"}
           [] emergency_type = "MEDICAL" -> {"rescue"}
           [] emergency_type = "CRIME" -> {"medical"}
           [] OTHER -> {}
    ELSE {}

EscalatedServices(emergency_type, confidence) ==
    IF confidence > EscalationThreshold
    THEN CASE emergency_type = "FIRE" -> {"rescue", "medical"}
           [] emergency_type = "MEDICAL" -> {"rescue"}
           [] emergency_type = "CRIME" -> {"medical"}
           [] OTHER -> {}
    ELSE {}

GetRequiredServices(emergency_type, confidence) ==
    [s \in Services |->
        s \in BaseServices(emergency_type)
              \cup EscalatedServices(emergency_type, confidence)]

----------------------------------------------------------------------------
(* What a client may submit to POST /emergency/report *)

TextInputs == {"None", "", "user_en", "user_es"}

AudioInputs == {"None", "empty", "bytes"}

LocationInputs == {"None", "loc"}

(* audio.read(): an uploaded file of zero bytes reads as b"", which is falsy *)
ReadAudio(audio) ==
    CASE audio = "None" -> "None"
      [] audio = "empty" -> ""
      [] OTHER -> "audio_bytes"

(* lat/lon are both given or both absent here; the dict is built only then *)
MakeLocation(latlon) == IF latlon /= "None" THEN "loc" ELSE "None"

----------------------------------------------------------------------------
(* External providers, as the pipeline sees them *)

(* SpeechService.transcribe: the fixed English text of test mode, or, with *)
(* the real model, possibly no speech at all (the empty string)            *)
TranscribeResults == {"audio_en", ""}

(* TranslationService.detect_language: the language the provider reports *)
DetectedLanguage(text) == IF text = "user_es" THEN "es" ELSE "en"

Lower(lang) == IF lang = "EN" THEN "en" ELSE lang

(* mutant: the translation is never asked for *)
is_translation_needed_Never(detected_language) == FALSE

is_translation_needed(detected_language) == Lower(detected_language) /= "en"

(* TranslationService.translate: the provider's English rendering *)
TranslatedText(text) == IF text = "user_es" THEN "user_es_in_english" ELSE text

ClassifierConfidence == 95

(* EmergencyClassifier.classify returns this fixed classification *)
ClassifyResult ==
    [type |-> "FIRE", confidence |-> ClassifierConfidence,
     priority |-> priority_mapping["FIRE"]]

----------------------------------------------------------------------------
(* ApifyDataCollector.get_emergency_context and its three sub-queries.     *)
(* ok is whether the Apify actor call returned; each sub-query catches its *)
(* own failure and returns its default.                                    *)

GetWeatherData(ok) ==
    IF ok
    THEN [temperature |-> "data", conditions |-> "data",
          wind_speed |-> "data", visibility |-> "data"]
    ELSE [temperature |-> "None", conditions |-> "unknown",
          wind_speed |-> "None", visibility |-> "None"]

GetTrafficData(ok) ==
    IF ok
    THEN [congestion_level |-> "data", average_speed |-> "data",
          incidents |-> <<"incident">>]
    ELSE [congestion_level |-> "unknown", average_speed |-> "None",
          incidents |-> <<>>]

FacilityKeys(emergency_type) ==
    CASE emergency_type = "MEDICAL" -> {"hospitals"}
      [] emergency_type = "FIRE" -> {"fire_stations"}
      [] emergency_type = "POLICE" -> {"police_stations"}
      [] OTHER -> {}

(* _get_hospitals, _get_fire_stations, _get_police_stations *)
GetFacilityList(ok) == IF ok THEN <<"facility">> ELSE <<>>

GetFacilitiesData(emergency_type, ok) ==
    [k \in FacilityKeys(emergency_type) |-> GetFacilityList(ok)]

(* mutant: one try/except around the three sub-queries, so that a failure *)
(* of any of them defaults all three                                      *)
GetEmergencyContext_AllOrNothing(emergency_type, weatherOk, trafficOk, facilitiesOk) ==
    LET ok == weatherOk /\ trafficOk /\ facilitiesOk
        facilities == GetFacilitiesData(emergency_type, ok)
    IN  [k \in {"weather", "traffic"} \cup DOMAIN facilities |->
            IF k \in DOMAIN facilities THEN facilities[k]
            ELSE IF k = "weather" THEN GetWeatherData(ok) ELSE GetTrafficData(ok)]

(* {"weather": weather, "traffic": traffic, **facilities} *)
GetEmergencyContext(emergency_type, weatherOk, trafficOk, facilitiesOk) ==
    LET weather == GetWeatherData(weatherOk)
        traffic == GetTrafficData(trafficOk)
        facilities == GetFacilitiesData(emergency_type, facilitiesOk)
    IN  [k \in {"weather", "traffic"} \cup DOMAIN facilities |->
            IF k \in DOMAIN facilities THEN facilities[k]
            ELSE IF k = "weather" THEN weather ELSE traffic]

----------------------------------------------------------------------------
(* POST /emergency/report: main.py report_emergency, which runs            *)
(* EmergencyCoordinator.process_emergency.  req holds the locals of the    *)
(* two functions; text is the parameter of report_emergency and ctext the  *)
(* parameter of process_emergency, which the coordinator overwrites.       *)
(* status is the HTTP status of the response, 0 while there is none.       *)
(* History kept for the properties: stages lists the calls made so far,    *)
(* failed names the call that raised, degraded the sub-queries that fell   *)
(* back to their default, and rows_before and events_before are the two    *)
(* logs as they were when the request arrived.                             *)

EmergencyStatus == {"ACTIVE", "RESOLVED", "CANCELLED"}

NotesInputs == {"None", "note"}

(* upd while no update request has been answered *)
NoUpdate == [id |-> 0, status |-> "None", notes |-> "None", code |-> 0,
             old_status |-> "None", notified |-> None]

IdleReq ==
    [pc |-> "idle", text |-> "None", audio |-> "None", audio_data |-> "None",
     latlon |-> "None", location |-> "None", ctext |-> "None", lang |-> "None",
     classification |-> None, required_services |-> None, context |-> None,
     response |-> None, emergency_id |-> None, notified |-> None,
     raised |-> "None", status |-> 0,
     stages |-> <<>>, failed |-> "None", degraded |-> {},
     rows_before |-> <<>>, events_before |-> <<>>]

Called(r, stage) == [r EXCEPT !.stages = Append(@, stage)]

Failing(r) == [r EXCEPT !.failed = r.stages[Len(r.stages)]]

(* except Exception as e: db.rollback(); raise HTTPException(500, str(e)). *)
(* HTTPException is itself an Exception, so the 400 raised inside the try  *)
(* block is caught here as well.                                           *)
Abort(r, e) == [r EXCEPT !.pc = "done", !.raised = e, !.status = 500]

(* the input check and the reading of the request *)
ReceiveReport(text, audio, latlon) ==
    LET r == [IdleReq EXCEPT !.text = text, !.audio = audio, !.latlon = latlon]
    IN  IF audio = "None" /\ ~Truthy(text)
        THEN Abort(r, "HTTPException_400")
        ELSE [r EXCEPT !.pc = "transcribe",
                       !.audio_data = ReadAudio(audio),
                       !.location = MakeLocation(latlon),
                       !.ctext = text]

ReportEmergency(text, audio, latlon) ==
    /\ req.pc = "idle"
    /\ nreports < MaxReports
    /\ nreports' = nreports + 1
    /\ req' = [ReceiveReport(text, audio, latlon) EXCEPT
                   !.rows_before = emergencies, !.events_before = published]
    /\ upd' = NoUpdate
    /\ UNCHANGED <<emergencies, status_updates, published, now, nupdates,
                   rs_in, rs_out, notif_vars, enrich, mini, http>>

(* if not text: raise Exception("No text input provided") *)
RequireText(r) ==
    IF ~Truthy(r.ctext)
    THEN Abort(r, "ProcessingError")
    ELSE [r EXCEPT !.pc = "detect"]

(* if audio and not text *)
TranscriptionUsed(r) == Truthy(r.audio_data) /\ ~Truthy(r.ctext)

(* mutant: a failed transcription is swallowed and the text left empty *)
TranscribeFailed_EmptyText(r) == [r EXCEPT !.ctext = "", !.pc = "detect"]

(* transcribe raises; process_emergency re-raises; report_emergency aborts *)
TranscribeFailed(r) == Abort(r, "ProcessingError")

Transcribe ==
    /\ req.pc = "transcribe"
    /\ IF TranscriptionUsed(req)
       THEN \/ \E t \in TranscribeResults :
                  req' = RequireText([Called(req, "transcribe") EXCEPT !.ctext = t])
            \/ req' = TranscribeFailed(Failing(Called(req, "transcribe")))
       ELSE req' = RequireText(req)
    /\ UNCHANGED <<emergencies, status_updates, published, upd, now, nreports,
                   nupdates, rs_in, rs_out, notif_vars, enrich, mini, http>>

DetectLanguage ==
    /\ req.pc = "detect"
    /\ LET r == Called(req, "detect_language")
       IN  \/ LET lang == DetectedLanguage(r.ctext)
              IN  req' = [r EXCEPT !.lang = lang,
                                   !.pc = IF is_translation_needed(lang)
                                          THEN "translate" ELSE "classify"]
           \/ req' = Abort(Failing(r), "ProcessingError")
    /\ UNCHANGED <<emergencies, status_updates, published, upd, now, nreports,
                   nupdates, rs_in, rs_out, notif_vars, enrich, mini, http>>

Translate ==
    /\ req.pc = "translate"
    /\ LET r == Called(req, "translate")
       IN  \/ req' = [r EXCEPT !.ctext = TranslatedText(r.ctext), !.pc = "classify"]
           \/ req' = Abort(Failing(r), "ProcessingError")
    /\ UNCHANGED <<emergencies, status_updates, published, upd, now, nreports,
                   nupdates, rs_in, rs_out, notif_vars, enrich, mini, http>>

(* mutant: a failed classification falls back to a default classification *)
ClassifyFailed_Fallback(r) ==
    [r EXCEPT !.classification =
                  Some([type |-> "OTHER", confidence |-> 0,
                        priority |-> priority_mapping["OTHER"]]),
              !.pc = "services"]

(* classify raises; process_emergency re-raises; report_emergency aborts *)
ClassifyFailed(r) == Abort(r, "ProcessingError")

Classify ==
    /\ req.pc = "classify"
    /\ LET r == Called(req, "classify")
       IN  \/ req' = [r EXCEPT !.classification = Some(ClassifyResult),
                               !.pc = "services"]
           \/ req' = ClassifyFailed(Failing(r))
    /\ UNCHANGED <<emergencies, status_updates, published, upd, now, nreports,
                   nupdates, rs_in, rs_out, notif_vars, enrich, mini, http>>

ResolveServices ==
    /\ req.pc = "services"
    /\ LET r == Called(req, "get_required_services")
           c == r.classification[1]
       IN  req' = [r EXCEPT !.required_services =
                                Some(GetRequiredServices(c.type, c.confidence)),
                            !.pc = "context"]
    /\ UNCHANGED <<emergencies, status_updates, published, upd, now, nreports,
                   nupdates, rs_in, rs_out, notif_vars, enrich, mini, http>>

(* the dictionary process_emergency returns *)
BuildResponse(r) ==
    LET c == r.classification[1]
    IN  [type |-> c.type,
         priority |-> c.priority,
         details |-> [original_text |-> r.ctext,
                      location |-> r.location,
                      confidence |-> c.confidence,
                      required_services |-> r.required_services[1],
                      context |-> r.context]]

Finish(r) == [r EXCEPT !.response = Some(BuildResponse(r)), !.pc = "persist"]

Enrich ==
    /\ req.pc = "context"
    /\ IF Truthy(req.location)
       THEN \E weatherOk, trafficOk, facilitiesOk \in BOOLEAN :
               req' = Finish([Called(req, "get_emergency_context") EXCEPT
                        !.context = Some(GetEmergencyContext(
                                       req.classification[1].type,
                                       weatherOk, trafficOk, facilitiesOk)),
                        !.degraded = {q \in {"weather", "traffic", "facilities"} :
                                         \/ q = "weather" /\ ~weatherOk
                                         \/ q = "traffic" /\ ~trafficOk
                                         \/ q = "facilities" /\ ~facilitiesOk}])
       ELSE req' = Finish(req)
    /\ UNCHANGED <<emergencies, status_updates, published, upd, now, nreports,
                   nupdates, rs_in, rs_out, notif_vars, enrich, mini, http>>

(* mutant: the row is created with another status *)
NewEmergency_Pending(r, id, t) ==
    [id |-> id,
     emergency_type |-> r.response[1].type,
     priority_level |-> r.response[1].priority,
     status |-> "PENDING",
     location |-> r.latlon,
     response_plan |-> r.response[1],
     estimated_response_time |-> None,
     actual_response_time |-> None,
     notes |-> "None",
     created_at |-> t,
     updated_at |-> t]

(* Emergency(id=uuid4(), ..., status="ACTIVE", ...): a fresh id, and the   *)
(* server defaults of created_at and updated_at                            *)
NewEmergency(r, id, t) ==
    [id |-> id,
     emergency_type |-> r.response[1].type,
     priority_level |-> r.response[1].priority,
     status |-> "ACTIVE",
     location |-> r.latlon,
     response_plan |-> r.response[1],
     estimated_response_time |-> None,
     actual_response_time |-> None,
     notes |-> "None",
     created_at |-> t,
     updated_at |-> t]

FreshId == Len(emergencies) + 1

CommitFailed(r) == Abort(r, "CommitError")

(* db.add(emergency); db.commit() *)
Persist ==
    /\ req.pc = "persist"
    /\ LET r == Called(req, "commit")
       IN  \/ /\ emergencies' = Append(emergencies, NewEmergency(r, FreshId, now))
              /\ req' = [r EXCEPT !.emergency_id = Some(FreshId), !.pc = "publish"]
           \/ /\ req' = CommitFailed(Failing(r))
              /\ UNCHANGED emergencies
    /\ UNCHANGED <<status_updates, published, upd, now, nreports, nupdates, rs_in, rs_out, notif_vars, enrich, mini, http>>

(* mutant: a pending Notification is created for every stored             *)
(* subscription, whatever its notification_type                            *)
CreatedNotifications_Broadcast(channel, data) ==
    [i \in 1..Len(subscriptions) |->
        [emergency_id |-> data.emergency_id,
         recipient_type |-> subscriptions[i].subscriber_type,
         recipient_id |-> subscriptions[i].subscriber_id,
         message |-> channel,
         status |-> "pending",
         created_at |-> now]]

(* the rows send_notification adds to table "notifications": none; the     *)
(* method reads no subscription and writes no row                          *)
CreatedNotifications(channel, data) == <<>>

(* NotificationService.send_notification: one call, which prints the       *)
(* notification and returns True, or catches the failure and returns       *)
(* False; both callers drop the value                                      *)
SendNotification(channel, data) ==
    Append(published, [channel |-> channel, data |-> data])

EmergencyEvent(r) ==
    [emergency_id |-> r.emergency_id[1],
     type |-> r.response[1].type,
     priority |-> r.response[1].priority,
     details |-> r.response[1].details]

Publish ==
    /\ req.pc = "publish"
    /\ published' = SendNotification("emergency", EmergencyEvent(req))
    /\ notifications' =
           notifications \o CreatedNotifications("emergency", EmergencyEvent(req))
    /\ \E printed \in BOOLEAN :
          req' = [Called(req, "send_notification") EXCEPT
                     !.notified = Some(printed), !.pc = "done", !.status = 200]
    /\ UNCHANGED <<emergencies, status_updates, upd, now, nreports, nupdates,
                   rs_in, rs_out, subscriptions, ws, inbox, enrich, mini, http>>

(* the response has been sent: the handler's frame is gone *)
Complete ==
    /\ req.pc = "done"
    /\ req' = IdleReq
    /\ UNCHANGED <<emergencies, status_updates, published, upd, now, nreports,
                   nupdates, rs_in, rs_out, notif_vars, enrich, mini, http>>

----------------------------------------------------------------------------
(* PUT /emergency/{emergency_id}: main.py update_emergency.  The handler   *)
(* has no suspension point between its query and its commit, so on the     *)
(* server's event loop it runs as one step, between report requests.       *)

(* mutant: the filter on the id is lost and first() returns the first row *)
Lookup_Unfiltered(emergency_id) == {i \in 1..Len(emergencies) : i = 1}

(* db.query(Emergency).filter(Emergency.id == emergency_id).first() *)
Lookup(emergency_id) == {i \in 1..Len(emergencies) : emergencies[i].id = emergency_id}

(* int((datetime.utcnow() - created_at).total_seconds() / 60) *)
ElapsedMinutes(created_at, t) == ((t - created_at) * TickSeconds) \div SecondsPerMinute

(* mutant: a terminal emergency keeps its status and response time *)
UpdatedEmergency_Guarded(e, status, notes, t) ==
    IF e.status \in {"RESOLVED", "CANCELLED"}
    THEN [e EXCEPT !.notes = notes, !.updated_at = t]
    ELSE [e EXCEPT !.status = status,
                   !.notes = notes,
                   !.updated_at = t,
                   !.actual_response_time =
                       IF status = "RESOLVED"
                       THEN Some(ElapsedMinutes(e.created_at, t))
                       ELSE @]

(* mutant: an update to another status than RESOLVED clears the response time *)
UpdatedEmergency_ClearsResponseTime(e, status, notes, t) ==
    [e EXCEPT !.status = status,
              !.notes = notes,
              !.updated_at = t,
              !.actual_response_time =
                  IF status = "RESOLVED"
                  THEN Some(ElapsedMinutes(e.created_at, t))
                  ELSE None]

UpdatedEmergency(e, status, notes, t) ==
    [e EXCEPT !.status = status,
              !.notes = notes,
              !.updated_at = t,
              !.actual_response_time =
                  IF status = "RESOLVED"
                  THEN Some(ElapsedMinutes(e.created_at, t))
                  ELSE @]

(* mutant: the old status is the one a read before the previous commit saw *)
StatusEvent_StaleRead(emergency_id, old_status, status, notes) ==
    [emergency_id |-> emergency_id, old_status |-> "ACTIVE",
     new_status |-> status, notes |-> notes]

StatusEvent(emergency_id, old_status, status, notes) ==
    [emergency_id |-> emergency_id, old_status |-> old_status,
     new_status |-> status, notes |-> notes]

(* the rows the handler adds to emergency_status_updates: none *)
AuditRows(e, status, notes, t) == <<>>

UpdateEmergency(emergency_id, status, notes) ==
    /\ req.pc = "idle"
    /\ nupdates < MaxUpdates
    /\ nupdates' = nupdates + 1
    /\ LET found == Lookup(emergency_id)
           u == [id |-> emergency_id, status |-> status, notes |-> notes,
                 code |-> 404, old_status |-> "None", notified |-> None]
       IN  IF found = {}
           THEN /\ upd' = u
                /\ UNCHANGED <<emergencies, status_updates, published, notifications>>
           ELSE LET i == CHOOSE i \in found : TRUE
                    e == emergencies[i]
                IN  \/ /\ emergencies' =
                            [emergencies EXCEPT ![i] = UpdatedEmergency(e, status, notes, now)]
                       /\ status_updates' = status_updates \o AuditRows(e, status, notes, now)
                       /\ published' = SendNotification("status_update",
                              StatusEvent(emergency_id, e.status, status, notes))
                       /\ notifications' = notifications \o
                              CreatedNotifications("status_update",
                                  StatusEvent(emergency_id, e.status, status, notes))
                       /\ \E printed \in BOOLEAN :
                             upd' = [u EXCEPT !.code = 200, !.old_status = e.status,
                                              !.notified = Some(printed)]
                    \/ /\ upd' = [u EXCEPT !.code = 500, !.old_status = e.status]
                       /\ UNCHANGED <<emergencies, status_updates, published,
                                      notifications>>
    /\ UNCHANGED <<req, now, nreports, rs_in, rs_out, subscriptions, ws, inbox, enrich, mini, http>>

(* time passes; between requests is enough, since a report reads the clock *)
(* only when it commits                                                    *)
Tick ==
    /\ req.pc = "idle"
    /\ now < MaxClock
    /\ now' = now + 1
    /\ UNCHANGED <<emergencies, status_updates, published, req, upd, nreports,
                   nupdates, rs_in, rs_out, notif_vars, enrich, mini, http>>

----------------------------------------------------------------------------
(* The notification endpoints of main.py and the NotificationService *)

SubscriberIds == {"s1", "s2"}

(* the notification types a subscription names: the two channels the       *)
(* handlers pass to send_notification                                      *)
NotificationTypes == {"emergency", "status_update"}

(* POST /notifications/subscribe: the subscription is stored as given, no  *)
(* field is checked, and an earlier subscription of the same subscriber is *)
(* neither looked up nor replaced                                          *)
NewSubscription(subscriber_type, subscriber_id, notification_type, channel) ==
    [subscriber_type |-> subscriber_type,
     subscriber_id |-> subscriber_id,
     notification_type |-> notification_type,
     channel |-> channel]

SubscribeToNotifications(subscriber_type, subscriber_id, notification_type, channel) ==
    /\ req.pc = "idle"
    /\ Len(subscriptions) < MaxSubscriptions
    /\ subscriptions' = Append(subscriptions,
           NewSubscription(subscriber_type, subscriber_id, notification_type, channel))
    /\ UNCHANGED <<emergencies, status_updates, published, req, upd, now, nreports,
                   nupdates, rs_in, rs_out, notifications, ws, inbox, enrich, mini, http>>

(* the connections NotificationService has registered: the class has no    *)
(* registry, __init__ is `pass`                                            *)
RegisteredConnections == {}

NoSocket == [client_id |-> "None", raised |-> "None"]

(* notification_manager.connect(websocket, client_id): NotificationService *)
(* defines no method connect (and no disconnect), so the attribute lookup  *)
(* raises before the handler's try block is entered                        *)
Connect(client_id) == [client_id |-> client_id, raised |-> "AttributeError"]

(* /ws/{client_id} *)
WebsocketEndpoint(client_id) ==
    /\ req.pc = "idle"
    /\ ws' = Connect(client_id)
    /\ UNCHANGED <<emergencies, status_updates, published, req, upd, now, nreports,
                   nupdates, rs_in, rs_out, subscriptions, notifications, inbox, enrich, mini, http>>

NotificationsLimit == 100

(* "confidence": 0.95 of the minimal server, in hundredths *)
MinimalConfidence == 95

(* order_by(Notification.created_at.desc()) *)
OrderByCreatedAtDesc(rows) ==
    LET Rank(k) == 1 + Cardinality({j \in 1..Len(rows) :
                         \/ rows[j].created_at > rows[k].created_at
                         \/ rows[j].created_at = rows[k].created_at /\ j < k})
    IN  [i \in 1..Len(rows) |-> rows[CHOOSE k \in 1..Len(rows) : Rank(k) = i]]

(* mutant: the filter on the recipient is lost *)
NotificationsOf_Unfiltered(subscriber_id) ==
    LET rows == OrderByCreatedAtDesc(notifications)
    IN  IF Len(rows) <= NotificationsLimit
        THEN rows
        ELSE SubSeq(rows, 1, NotificationsLimit)

(* query(Notification).filter(recipient_id == subscriber_id)               *)
(*     .order_by(created_at.desc()).limit(100).all()                       *)
NotificationsOf(subscriber_id) ==
    LET IsFor(n) == n.recipient_id = subscriber_id
        rows == OrderByCreatedAtDesc(SelectSeq(notifications, IsFor))
    IN  IF Len(rows) <= NotificationsLimit
        THEN rows
        ELSE SubSeq(rows, 1, NotificationsLimit)

NoInbox == [subscriber_id |-> "None", rows |-> <<>>]

(* GET /notifications/{subscriber_id} *)
GetNotifications(subscriber_id) ==
    /\ req.pc = "idle"
    /\ inbox' = [subscriber_id |-> subscriber_id, rows |-> NotificationsOf(subscriber_id)]
    /\ UNCHANGED <<emergencies, status_updates, published, req, upd, now, nreports,
                   nupdates, rs_in, rs_out, subscriptions, notifications, ws, enrich, mini, http>>

----------------------------------------------------------------------------
(* ApifyDataCollector.get_emergency_context, coroutine by coroutine.       *)
(* asyncio.gather wraps the three sub-query coroutines in tasks, which the *)
(* event loop starts in the order given.  _get_weather_data and            *)
(* _get_traffic_data contain no await and the facility helpers await only  *)
(* coroutines of the same kind; each reaches the synchronous               *)
(* client.actor(...).call(), which returns when the provider's run has     *)
(* finished and is given no timeout.  A task therefore runs to its end     *)
(* before the loop starts the next.                                        *)

SubQueries == <<"weather", "traffic", "facilities">>

NoGather ==
    [pc |-> "idle", emergency_type |-> "None", waiting |-> FALSE,
     started |-> <<>>, answered |-> <<>>, ok |-> <<>>, context |-> None]

(* the task the loop runs after the task q has returned *)
NextTask(q) ==
    CASE q = "weather" -> "traffic"
      [] q = "traffic" -> "facilities"
      [] q = "facilities" -> "join"

(* does the sub-query call a provider: facilities only for some types *)
CallsProvider(q, emergency_type) ==
    q /= "facilities" \/ FacilityKeys(emergency_type) /= {}

(* the running task enters client.actor(...).call() *)
CallProvider ==
    /\ enrich.pc \in {"weather", "traffic", "facilities"}
    /\ ~enrich.waiting
    /\ CallsProvider(enrich.pc, enrich.emergency_type)
    /\ enrich' = [enrich EXCEPT !.waiting = TRUE,
                                !.started = Append(@, enrich.pc)]
    /\ UNCHANGED <<emergencies, status_updates, published, req, upd, now, nreports,
                   nupdates, rs_in, rs_out, notif_vars, mini, http>>

(* _get_facilities_data for a type without facilities: no call, {} *)
SkipProvider ==
    /\ enrich.pc \in {"weather", "traffic", "facilities"}
    /\ ~enrich.waiting
    /\ ~CallsProvider(enrich.pc, enrich.emergency_type)
    /\ enrich' = [enrich EXCEPT !.ok = Append(@, TRUE),
                                !.pc = NextTask(enrich.pc)]
    /\ UNCHANGED <<emergencies, status_updates, published, req, upd, now, nreports,
                   nupdates, rs_in, rs_out, notif_vars, mini, http>>

(* the provider's run ends: call() returns the data, or raises and the     *)
(* sub-query's except branch returns its default; the task is done         *)
ProviderAnswers(ok) ==
    /\ enrich.waiting
    /\ enrich' = [enrich EXCEPT !.waiting = FALSE,
                                !.answered = Append(@, enrich.pc),
                                !.ok = Append(@, ok),
                                !.pc = NextTask(enrich.pc)]
    /\ UNCHANGED <<emergencies, status_updates, published, req, upd, now, nreports,
                   nupdates, rs_in, rs_out, notif_vars, mini, http>>

(* results = await asyncio.gather(...); weather, traffic, facilities =    *)
(* results; return {...}: gather gives the results in the order of its     *)
(* arguments                                                               *)
Join ==
    /\ enrich.pc = "join"
    /\ enrich' = [enrich EXCEPT
                     !.pc = "returned",
                     !.context = Some(GetEmergencyContext(enrich.emergency_type,
                                          enrich.ok[1], enrich.ok[2], enrich.ok[3]))]
    /\ UNCHANGED <<emergencies, status_updates, published, req, upd, now, nreports,
                   nupdates, rs_in, rs_out, notif_vars, mini, http>>

----------------------------------------------------------------------------
(* The minimal server: main_minimal.py                                     *)
(*                                                                         *)
(* Its functions look at a text in three ways: as the string itself (the   *)
(* exact-match table), by the words that occur in it as substrings of its  *)
(* lower-cased form, and by its script (two regular expressions).  A text  *)
(* is kept here as the string together with what these tests see of it:    *)
(*   raw      the string, a character outside ASCII written {code point}   *)
(*   words    the words of the lists below that occur in text.lower()      *)
(*   kana     some character lies in U+3040..U+30FF                        *)
(*   han      some character lies in U+4E00..U+9FAF                        *)
(*   han_rare some character lies in U+9FB0..U+9FFF                        *)

(* detect_language_simple: the indicator words of each language *)
SpanishIndicators ==
    {"ayuda", "fuego", "incendio", "personas", "emergencia", "m{e9}dica",
     "ataque", "coraz{f3}n", "{a1}", "{bf}"}

FrenchIndicators ==
    {"secours", "incendie", "b{e2}timent", "gens", "pi{e9}g{e9}s",
     "urgence", "maison", "br{fb}le"}

GermanIndicators ==
    {"hilfe", "brand", "geb{e4}ude", "menschen", "eingeschlossen",
     "notfall", "jemand", "zusammengebrochen"}

ItalianIndicators ==
    {"aiuto", "incendio", "edificio", "persone", "intrappolate",
     "emergenza"}

ChineseMarkers ==
    {"{6551}{547d}", "{5927}{697c}", "{8d77}{706b}", "{88ab}{56f0}"}

(* classify_emergency_simple: the keyword lists *)
fire_keywords ==
    {"fire", "burn", "smoke", "flame", "incendio", "brand", "incendie",
     "{706b}{4e8b}", "{8d77}{706b}", "burning", "kitchen"}

medical_keywords ==
    {"medical", "heart", "breathing", "collapsed", "injured", "ambulance",
     "attack", "emergency: medical", "someone has collapsed"}

crime_keywords ==
    {"robbery", "attack", "violence", "weapon", "crime", "armed",
     "suspects"}

emergency_keywords ==
    {"emergency", "help", "urgent", "emergency:"}

(* translate_to_english_mock: the keyword table of each language, in the *)
(* order of the dict                                                      *)
emergency_translations ==
    [lang \in {"es", "fr", "de", "it", "ja", "zh"} |->
        CASE lang = "es" ->
               <<<<"fuego", "fire">>,
                 <<"incendio", "fire">>,
                 <<"emergencia", "emergency">>,
                 <<"m{e9}dica", "medical">>,
                 <<"ataque", "attack">>,
                 <<"coraz{f3}n", "heart">>,
                 <<"ayuda", "help">>>>
          [] lang = "fr" ->
               <<<<"incendie", "fire">>,
                 <<"secours", "help">>,
                 <<"urgence", "emergency">>,
                 <<"maison", "house">>,
                 <<"br{fb}le", "burning">>>>
          [] lang = "de" ->
               <<<<"notfall", "emergency">>,
                 <<"brand", "fire">>,
                 <<"hilfe", "help">>,
                 <<"zusammengebrochen", "collapsed">>,
                 <<"jemand", "someone">>>>
          [] lang = "it" ->
               <<<<"incendio", "fire">>,
                 <<"aiuto", "help">>,
                 <<"emergenza", "emergency">>>>
          [] lang = "ja" ->
               <<<<"{706b}{4e8b}", "fire">>,
                 <<"{52a9}{3051}{3066}", "help">>,
                 <<"{7dca}{6025}", "emergency">>,
                 <<"{706b}{707d}", "fire">>>>
          [] lang = "zh" ->
               <<<<"{8d77}{706b}", "fire">>,
                 <<"{6551}{547d}", "help">>,
                 <<"{7d27}{6025}", "emergency">>,
                 <<"{706b}{707e}", "fire">>>>]

(* the keywords occurring in the lower-cased prefix                        *)
(* "Emergency: <english_word> situation - " of a keyword translation       *)
PrefixWords(english_word) ==
    CASE english_word = "attack" -> {"attack", "emergency", "emergency:"}
      [] english_word = "burning" -> {"burn", "burning", "emergency", "emergency:"}
      [] english_word = "collapsed" -> {"collapsed", "emergency", "emergency:"}
      [] english_word = "emergency" -> {"emergency", "emergency:"}
      [] english_word = "fire" -> {"emergency", "emergency:", "fire"}
      [] english_word = "heart" -> {"emergency", "emergency:", "heart"}
      [] english_word = "help" -> {"emergency", "emergency:", "help"}
      [] english_word = "house" -> {"emergency", "emergency:"}
      [] english_word = "medical" -> {"emergency", "emergency:", "emergency: medical", "medical"}
      [] english_word = "someone" -> {"emergency", "emergency:"}

(* translate_to_english_mock: the sentences translated word for word *)
translations ==
    [lang \in {"es", "fr", "de", "it", "ja", "zh"} |->
        CASE lang = "es" ->
            {<<"{a1}Ayuda! Hay un incendio en el edificio y hay personas atrapadas!",
               [raw |-> "Help! There is a fire in the building and people are trapped!",
               words |-> {"fire", "help"},
               kana |-> FALSE, han |-> FALSE, han_rare |-> FALSE]>>,
             <<"{a1}Fuego! {a1}La cocina est{e1} en llamas!",
               [raw |-> "Fire! The kitchen is on fire!",
               words |-> {"fire", "kitchen"},
               kana |-> FALSE, han |-> FALSE, han_rare |-> FALSE]>>,
             <<"Emergencia m{e9}dica! Ataque al coraz{f3}n!",
               [raw |-> "Medical emergency! Heart attack!",
               words |-> {"attack", "emergency", "heart", "medical"},
               kana |-> FALSE, han |-> FALSE, han_rare |-> FALSE]>>}
          [] lang = "fr" ->
            {<<"Au secours! Il y a un incendie dans le b{e2}timent et des gens sont pi{e9}g{e9}s!",
               [raw |-> "Help! There is a fire in the building and people are trapped!",
               words |-> {"fire", "help"},
               kana |-> FALSE, han |-> FALSE, han_rare |-> FALSE]>>,
             <<"Incendie! La maison br{fb}le!",
               [raw |-> "Fire! The house is burning!",
               words |-> {"burn", "burning", "fire"},
               kana |-> FALSE, han |-> FALSE, han_rare |-> FALSE]>>}
          [] lang = "de" ->
            {<<"Hilfe! Es gibt einen Brand im Geb{e4}ude und Menschen sind eingeschlossen!",
               [raw |-> "Help! There is a fire in the building and people are trapped!",
               words |-> {"fire", "help"},
               kana |-> FALSE, han |-> FALSE, han_rare |-> FALSE]>>,
             <<"Notfall! Jemand ist zusammengebrochen!",
               [raw |-> "Emergency! Someone has collapsed!",
               words |-> {"collapsed", "emergency", "someone has collapsed"},
               kana |-> FALSE, han |-> FALSE, han_rare |-> FALSE]>>}
          [] lang = "it" ->
            {<<"Aiuto! C'{e8} un incendio nell'edificio e ci sono persone intrappolate!",
               [raw |-> "Help! There is a fire in the building and people are trapped!",
               words |-> {"fire", "help"},
               kana |-> FALSE, han |-> FALSE, han_rare |-> FALSE]>>}
          [] lang = "ja" ->
            {<<"{52a9}{3051}{3066}{ff01}{5efa}{7269}{3067}{706b}{4e8b}{304c}{767a}{751f}{3057}{3001}{4eba}{3005}{304c}{9589}{3058}{8fbc}{3081}{3089}{308c}{3066}{3044}{307e}{3059}{ff01}",
               [raw |-> "Help! There is a fire in the building and people are trapped!",
               words |-> {"fire", "help"},
               kana |-> FALSE, han |-> FALSE, han_rare |-> FALSE]>>}
          [] lang = "zh" ->
            {<<"{6551}{547d}{ff01}{5927}{697c}{8d77}{706b}{ff0c}{6709}{4eba}{88ab}{56f0}{ff01}",
               [raw |-> "Help! There is a fire in the building and people are trapped!",
               words |-> {"fire", "help"},
               kana |-> FALSE, han |-> FALSE, han_rare |-> FALSE]>>}]

(* the reports of test_multilang.py and of test_multilang_specific.py,     *)
(* with the language each is written in and the type its test expects, if *)
(* it states one                                                           *)
LanguageTestCases ==
    {[text |->
     [raw |-> "Help! There is a fire in the building and people are trapped!",
      words |-> {"fire", "help"},
      kana |-> FALSE, han |-> FALSE, han_rare |-> FALSE],
     language |-> "en", expected_type |-> "None"],
     [text |->
     [raw |-> "{a1}Ayuda! Hay un incendio en el edificio y hay personas atrapadas!",
      words |-> {"ayuda", "edificio", "incendio", "personas", "{a1}"},
      kana |-> FALSE, han |-> FALSE, han_rare |-> FALSE],
     language |-> "es", expected_type |-> "None"],
     [text |->
     [raw |-> "Au secours! Il y a un incendie dans le b{e2}timent et des gens sont pi{e9}g{e9}s!",
      words |-> {"b{e2}timent", "gens", "incendie", "pi{e9}g{e9}s", "secours"},
      kana |-> FALSE, han |-> FALSE, han_rare |-> FALSE],
     language |-> "fr", expected_type |-> "None"],
     [text |->
     [raw |-> "Hilfe! Es gibt einen Brand im Geb{e4}ude und Menschen sind eingeschlossen!",
      words |-> {"brand", "eingeschlossen", "geb{e4}ude", "hilfe", "menschen"},
      kana |-> FALSE, han |-> FALSE, han_rare |-> FALSE],
     language |-> "de", expected_type |-> "None"],
     [text |->
     [raw |-> "Aiuto! C'{e8} un incendio nell'edificio e ci sono persone intrappolate!",
      words |-> {"aiuto", "edificio", "incendio", "intrappolate", "persone"},
      kana |-> FALSE, han |-> FALSE, han_rare |-> FALSE],
     language |-> "it", expected_type |-> "None"],
     [text |->
     [raw |-> "{52a9}{3051}{3066}{ff01}{5efa}{7269}{3067}{706b}{4e8b}{304c}{767a}{751f}{3057}{3001}{4eba}{3005}{304c}{9589}{3058}{8fbc}{3081}{3089}{308c}{3066}{3044}{307e}{3059}{ff01}",
      words |-> {"{52a9}{3051}{3066}", "{706b}{4e8b}"},
      kana |-> TRUE, han |-> TRUE, han_rare |-> FALSE],
     language |-> "ja", expected_type |-> "None"],
     [text |->
     [raw |-> "{6551}{547d}{ff01}{5927}{697c}{8d77}{706b}{ff0c}{6709}{4eba}{88ab}{56f0}{ff01}",
      words |-> {"{5927}{697c}", "{6551}{547d}", "{88ab}{56f0}", "{8d77}{706b}"},
      kana |-> FALSE, han |-> TRUE, han_rare |-> FALSE],
     language |-> "zh", expected_type |-> "None"]}

SpecificTestCases ==
    {[text |->
     [raw |-> "Fire! The kitchen is on fire and smoke everywhere!",
      words |-> {"fire", "kitchen", "smoke"},
      kana |-> FALSE, han |-> FALSE, han_rare |-> FALSE],
     language |-> "en", expected_type |-> "FIRE"],
     [text |->
     [raw |-> "{a1}Fuego! {a1}La cocina est{e1} en llamas!",
      words |-> {"fuego", "{a1}"},
      kana |-> FALSE, han |-> FALSE, han_rare |-> FALSE],
     language |-> "es", expected_type |-> "FIRE"],
     [text |->
     [raw |-> "Incendie! La maison br{fb}le!",
      words |-> {"br{fb}le", "incendie", "maison"},
      kana |-> FALSE, han |-> FALSE, han_rare |-> FALSE],
     language |-> "fr", expected_type |-> "FIRE"],
     [text |->
     [raw |-> "Medical emergency! Heart attack, need ambulance!",
      words |-> {"ambulance", "attack", "emergency", "heart", "medical"},
      kana |-> FALSE, han |-> FALSE, han_rare |-> FALSE],
     language |-> "en", expected_type |-> "MEDICAL"],
     [text |->
     [raw |-> "Emergencia m{e9}dica! Ataque al coraz{f3}n!",
      words |-> {"ataque", "coraz{f3}n", "emergencia", "m{e9}dica"},
      kana |-> FALSE, han |-> FALSE, han_rare |-> FALSE],
     language |-> "es", expected_type |-> "MEDICAL"],
     [text |->
     [raw |-> "Notfall! Jemand ist zusammengebrochen!",
      words |-> {"jemand", "notfall", "zusammengebrochen"},
      kana |-> FALSE, han |-> FALSE, han_rare |-> FALSE],
     language |-> "de", expected_type |-> "MEDICAL"],
     [text |->
     [raw |-> "Robbery in progress! Armed suspects!",
      words |-> {"armed", "robbery", "suspects"},
      kana |-> FALSE, han |-> FALSE, han_rare |-> FALSE],
     language |-> "en", expected_type |-> "CRIME"],
     [text |->
     [raw |-> "Traffic accident! Multiple cars involved!",
      words |-> {},
      kana |-> FALSE, han |-> FALSE, han_rare |-> FALSE],
     language |-> "en", expected_type |-> "OTHER"]}

TestCases == LanguageTestCases \cup SpecificTestCases

(* the fixed transcription of an audio report *)
MockTranscription ==
    [raw |-> "Mock transcription: Medical emergency at Central Park. Someone has collapsed.",
      words |-> {"collapsed", "emergency", "medical", "someone has collapsed"},
      kana |-> FALSE, han |-> FALSE, han_rare |-> FALSE]


(* re.search(r'[\u3040-\u309F\u30A0-\u30FF\u4E00-\u9FAF]', text) *)
JapaneseScript(text) == text.kana \/ text.han

(* re.search(r'[\u4E00-\u9FFF]', text) *)
ChineseScript(text) == text.han \/ text.han_rare

detect_language_simple(text) ==
    IF text.words \cap SpanishIndicators /= {} THEN "es"
    ELSE IF text.words \cap FrenchIndicators /= {} THEN "fr"
    ELSE IF text.words \cap GermanIndicators /= {} THEN "de"
    ELSE IF text.words \cap ItalianIndicators /= {} THEN "it"
    ELSE IF JapaneseScript(text) THEN "ja"
    ELSE IF ChineseScript(text) /\ text.words \cap ChineseMarkers /= {} THEN "zh"
    ELSE "en"

(* text in translations[source_lang] *)
ExactTranslations(text, source_lang) ==
    {p \in translations[source_lang] : p[1] = text.raw}

(* the english word of the first entry of the keyword table whose foreign  *)
(* word occurs in the text, if any: the loop breaks at the first hit       *)
FirstKeyword(text, source_lang) ==
    LET table == emergency_translations[source_lang]
        hits  == {i \in 1..Len(table) : table[i][1] \in text.words}
    IN  IF hits = {}
        THEN None
        ELSE Some(table[CHOOSE i \in hits : \A j \in hits : i <= j][2])

(* f"Emergency: {english_word} situation - {text}": the prefix has no      *)
(* character of the three scripts, and no listed word spans " - "          *)
KeywordTranslation(text, english_word) ==
    [text EXCEPT !.raw = "Emergency: " \o english_word \o " situation - " \o @,
                 !.words = @ \cup PrefixWords(english_word)]

translate_to_english_mock(text, source_lang) ==
    IF source_lang = "en" THEN text
    ELSE IF ExactTranslations(text, source_lang) /= {}
    THEN (CHOOSE p \in ExactTranslations(text, source_lang) : TRUE)[2]
    ELSE IF FirstKeyword(text, source_lang) /= None
    THEN KeywordTranslation(text, FirstKeyword(text, source_lang)[1])
    ELSE text

(* mutant: the crime keywords are tested before the medical ones *)
classify_emergency_simple_CrimeFirst(text) ==
    IF text.words \cap fire_keywords /= {} THEN <<"FIRE", "HIGH">>
    ELSE IF text.words \cap crime_keywords /= {} THEN <<"CRIME", "HIGH">>
    ELSE IF text.words \cap medical_keywords /= {} THEN <<"MEDICAL", "HIGH">>
    ELSE IF text.words \cap emergency_keywords /= {} THEN <<"OTHER", "HIGH">>
    ELSE <<"OTHER", "MEDIUM">>

classify_emergency_simple(text) ==
    IF text.words \cap fire_keywords /= {} THEN <<"FIRE", "HIGH">>
    ELSE IF text.words \cap medical_keywords /= {} THEN <<"MEDICAL", "HIGH">>
    ELSE IF text.words \cap crime_keywords /= {} THEN <<"CRIME", "HIGH">>
    ELSE IF text.words \cap emergency_keywords /= {} THEN <<"OTHER", "HIGH">>
    ELSE <<"OTHER", "MEDIUM">>

(* the required_services dict of the handler *)
required_services(emergency_type) ==
    [s \in Services |->
        CASE s = "medical" -> emergency_type \in {"MEDICAL", "FIRE"}
          [] s = "fire"    -> emergency_type = "FIRE"
          [] s = "police"  -> emergency_type \in {"CRIME", "FIRE"}
          [] s = "rescue"  -> emergency_type \in {"FIRE", "MEDICAL"}]

(* "location": {"lat": lat, "lon": lon} if lat and lon else None; a        *)
(* coordinate of 0.0 is falsy                                              *)
MinimalLocation(lat, lon) ==
    IF lat /= None /\ lat /= Some(0) /\ lon /= None /\ lon /= Some(0)
    THEN Some([lat |-> lat[1], lon |-> lon[1]])
    ELSE None

(* What a client may submit to the minimal POST /emergency/report *)

(* no text field *)
NoText == [raw |-> "None", words |-> {}, kana |-> FALSE, han |-> FALSE,
           han_rare |-> FALSE]

(* words to make texts of: seven of the lists above, one in hiragana, one  *)
(* of a single character of U+9FB0..U+9FFF.  None is part of another, and  *)
(* no listed word spans the space between two of them.                     *)
SampleKeywords ==
    <<"fire", "attack", "robbery", "help", "aiuto", "incendio", "{6551}{547d}">>

SampleKana == "{305f}{3059}{3051}{3066}"

SampleRare == "{9fb0}"

SampleWords == SampleKeywords \o <<SampleKana, SampleRare>>

RECURSIVE Joined(_)
Joined(seq) ==
    IF seq = <<>> THEN ""
    ELSE IF Len(seq) = 1 THEN seq[1]
    ELSE seq[1] \o " " \o Joined(Tail(seq))

(* " ".join of the sample words in S; the empty one is the empty string *)
SampleText(S) ==
    [raw |-> Joined(SelectSeq(SampleWords, LAMBDA w : w \in S)),
     words |-> S \ {SampleKana, SampleRare},
     kana |-> SampleKana \in S,
     han |-> "{6551}{547d}" \in S,
     han_rare |-> SampleRare \in S]

SampleTexts == {SampleText(S) : S \in SUBSET {SampleWords[i] : i \in DOMAIN SampleWords}}

MinimalTexts == {NoText} \cup {c.text : c \in TestCases} \cup SampleTexts

Coordinates == {None, Some(0), Some(40)}

(* no request yet, and a request received and not yet answered *)
NoMinimalRequest ==
    [received |-> FALSE, audio |-> "None", text |-> NoText, lat |-> None,
     lon |-> None, translated_text |-> NoText, response |-> None]

MinimalRequests ==
    {[NoMinimalRequest EXCEPT !.received = TRUE, !.audio = audio, !.text = text,
                              !.lat = lat, !.lon = lon] :
        audio \in AudioInputs, text \in MinimalTexts,
        lat \in Coordinates, lon \in Coordinates}

(* the handler's answer; translated_text is the local the classifier read *)
MinimalAnswer(audio, text, lat, lon) ==
    IF audio = "None" /\ ~Truthy(text.raw)
    THEN [translated_text |-> NoText,
          response |-> [status |-> 500, raised |-> "HTTPException_400"]]
    ELSE LET detected_language ==
                 IF audio /= "None" THEN "en" ELSE detect_language_simple(text)
             translated_text ==
                 IF audio /= "None" THEN MockTranscription
                 ELSE IF detected_language /= "en"
                 THEN translate_to_english_mock(text, detected_language)
                 ELSE text
             emergency_type == classify_emergency_simple(translated_text)[1]
             priority_level == classify_emergency_simple(translated_text)[2]
         IN  [translated_text |-> translated_text,
              response |->
                 [status |-> 200,
                  emergency_type |-> emergency_type,
                  priority_level |-> priority_level,
                  response_plan |->
                     [type |-> emergency_type,
                      priority |-> priority_level,
                      details |->
                         [original_text |-> translated_text.raw,
                          original_language |-> detected_language,
                          location |-> MinimalLocation(lat, lon),
                          confidence |-> MinimalConfidence,
                          required_services |-> required_services(emergency_type)]],
                  estimated_response_time |-> None]]

(* POST /emergency/report of main_minimal.py: nothing is stored, the      *)
(* answer depends on the request alone                                     *)
MinimalReportEmergency ==
    /\ mini.received
    /\ mini.response = None
    /\ LET answer == MinimalAnswer(mini.audio, mini.text, mini.lat, mini.lon)
       IN  mini' = [mini EXCEPT !.translated_text = answer.translated_text,
                                !.response = Some(answer.response)]
    /\ UNCHANGED <<emergencies, status_updates, published, req, upd, now,
                   nreports, nupdates, rs_in, rs_out, notif_vars, enrich, http>>

----------------------------------------------------------------------------
(* The routes of main.py.  Each @app decorator appends its route to the    *)
(* application's route list; a request is given to the first route of the  *)
(* list that matches its path and method.                                  *)

Routes ==
    <<[scope |-> "http", method |-> "POST", path |-> <<"emergency", "report">>,
       endpoint |-> "report_emergency"],
      [scope |-> "http", method |-> "GET", path |-> <<"emergency", "{emergency_id}">>,
       endpoint |-> "get_emergency_status"],
      [scope |-> "http", method |-> "PUT", path |-> <<"emergency", "{emergency_id}">>,
       endpoint |-> "update_emergency"],
      [scope |-> "http", method |-> "GET", path |-> <<"emergency", "history">>,
       endpoint |-> "get_emergency_history"],
      [scope |-> "http", method |-> "GET", path |-> <<"emergency", "stats">>,
       endpoint |-> "get_emergency_stats"],
      [scope |-> "websocket", method |-> "None", path |-> <<"ws", "{client_id}">>,
       endpoint |-> "websocket_endpoint"],
      [scope |-> "http", method |-> "POST", path |-> <<"notifications", "subscribe">>,
       endpoint |-> "subscribe_to_notifications"],
      [scope |-> "http", method |-> "GET", path |-> <<"notifications", "{subscriber_id}">>,
       endpoint |-> "get_notifications"],
      [scope |-> "http", method |-> "GET", path |-> <<"health">>,
       endpoint |-> "health_check"]>>

(* a path parameter matches any one segment *)
PathParameters == {"{emergency_id}", "{client_id}", "{subscriber_id}"}

(* the endpoints that declare their path parameter as emergency_id: UUID *)
UUIDEndpoints == {"get_emergency_status", "update_emergency"}

AnEmergencyId == "7c9e6679-7425-40de-944b-e07fc1f90ae7"

IsUUID(segment) == segment = AnEmergencyId

PathMatches(route, path) ==
    /\ Len(route.path) = Len(path)
    /\ \A i \in 1..Len(path) :
           route.path[i] \in PathParameters \/ route.path[i] = path[i]

(* the routes that match path and method, and those that match the path only *)
FullMatches(scope, method, path) ==
    {i \in 1..Len(Routes) : /\ Routes[i].scope = scope
                            /\ PathMatches(Routes[i], path)
                            /\ Routes[i].method = method}

PartialMatches(scope, method, path) ==
    {i \in 1..Len(Routes) : /\ Routes[i].scope = scope
                            /\ PathMatches(Routes[i], path)
                            /\ Routes[i].method /= method}

First(S) == CHOOSE i \in S : \A j \in S : i <= j

(* What a client may request: paths of up to MaxSegments segments *)
MaxSegments == 2

Segments ==
    {"emergency", "report", "history", "stats", "ws", "notifications",
     "subscribe", "health", "s1", AnEmergencyId}

RequestPaths == UNION {[1..n -> Segments] : n \in 1..MaxSegments}

RequestLines ==
    {<<"http", m>> : m \in {"GET", "PUT", "POST"}} \cup {<<"websocket", "None">>}

NoRequest ==
    [scope |-> "None", method |-> "None", path |-> <<>>, endpoint |-> "None",
     called |-> FALSE, status |-> None]

(* the route taken: the first full match is called, unless its UUID        *)
(* parameter does not parse (422); with no full match, a route matching    *)
(* the path alone answers 405; with none, the answer is 404                *)
Routed(scope, method, path) ==
    LET full    == FullMatches(scope, method, path)
        partial == PartialMatches(scope, method, path)
        request == [NoRequest EXCEPT !.scope = scope, !.method = method,
                                     !.path = path]
    IN  IF full /= {}
        THEN LET route == Routes[First(full)]
             IN  IF route.endpoint \in UUIDEndpoints /\ ~IsUUID(path[2])
                 THEN [request EXCEPT !.endpoint = route.endpoint,
                                      !.status = Some(422)]
                 ELSE [request EXCEPT !.endpoint = route.endpoint,
                                      !.called = TRUE]
        ELSE IF partial /= {}
        THEN [request EXCEPT !.endpoint = Routes[First(partial)].endpoint,
                             !.status = Some(405)]
        ELSE [request EXCEPT !.status = Some(404)]

Route(scope, method, path) ==
    /\ http' = Routed(scope, method, path)
    /\ UNCHANGED <<emergencies, status_updates, published, req, upd, now,
                   nreports, nupdates, rs_in, rs_out, notif_vars, enrich, mini>>

----------------------------------------------------------------------------
(* The application *)

NoResolve == [emergency_type |-> "None", confidence |-> 0]

AppInit ==
    /\ emergencies = <<>>
    /\ status_updates = <<>>
    /\ published = <<>>
    /\ req = IdleReq
    /\ upd = NoUpdate
    /\ now = 0
    /\ nreports = 0
    /\ nupdates = 0
    /\ subscriptions = <<>>
    /\ notifications = <<>>
    /\ ws = NoSocket
    /\ inbox = NoInbox
    /\ enrich = NoGather
    /\ mini = NoMinimalRequest
    /\ http = NoRequest

Init ==
    /\ AppInit
    /\ rs_in = NoResolve
    /\ rs_out = None

(* get_required_services on its own: any type string, any confidence *)
ResolverTypes == ClassifierTypes \cup {"POLICE", "fire"}

ResolverConfidences == {0, 30, 50, 79, 80, 81, 95, 100}

InitResolver ==
    /\ AppInit
    /\ rs_in \in [emergency_type : ResolverTypes, confidence : ResolverConfidences]
    /\ rs_out = None

Resolve ==
    /\ rs_out = None
    /\ rs_out' = Some(GetRequiredServices(rs_in.emergency_type, rs_in.confidence))
    /\ UNCHANGED <<emergencies, status_updates, published, req, upd, now, nreports,
                   nupdates, rs_in, notif_vars, enrich, mini, http>>

NextResolver == Resolve

SpecResolver == InitResolver /\ [][NextResolver]_vars

(* the reports of the lifecycle specification: one kind of report is     *)
(* enough to create the emergencies whose status is then updated           *)
LifecycleTexts == {"user_es"}

Pipeline ==
    \/ Transcribe
    \/ DetectLanguage
    \/ Translate
    \/ Classify
    \/ ResolveServices
    \/ Enrich
    \/ Persist
    \/ Publish
    \/ Complete

(* intake: every kind of report, one request after the other *)
Next ==
    \/ \E text \in TextInputs, audio \in AudioInputs, latlon \in LocationInputs :
          ReportEmergency(text, audio, latlon)
    \/ Pipeline

Spec == Init /\ [][Next]_vars

(* lifecycle: reports, status updates and the passing of time *)
NextLifecycle ==
    \/ \E text \in LifecycleTexts : ReportEmergency(text, "None", "None")
    \/ Pipeline
    \/ \E emergency_id \in 1..(Len(emergencies) + 1),
          status \in EmergencyStatus, notes \in NotesInputs :
          UpdateEmergency(emergency_id, status, notes)
    \/ Tick

SpecLifecycle == Init /\ [][NextLifecycle]_vars

(* notification: reports and status updates publish, subscribers           *)
(* subscribe, open their socket and read their notifications               *)
NextNotify ==
    \/ \E text \in LifecycleTexts : ReportEmergency(text, "None", "None")
    \/ Pipeline
    \/ \E emergency_id \in 1..(Len(emergencies) + 1), status \in EmergencyStatus :
          UpdateEmergency(emergency_id, status, "None")
    \/ \E subscriber_id \in SubscriberIds, notification_type \in NotificationTypes :
          SubscribeToNotifications("user", subscriber_id, notification_type, "websocket")
    \/ \E client_id \in SubscriberIds : WebsocketEndpoint(client_id)
    \/ \E subscriber_id \in SubscriberIds : GetNotifications(subscriber_id)

SpecNotify == Init /\ [][NextNotify]_vars

(* get_notifications on its own, over a table of Notification rows.  No    *)
(* handler writes the table, so its content is drawn here: every small     *)
(* table, and one with more rows of a recipient than the page holds.  The  *)
(* rows of a table have distinct creation times, in any order.             *)
MaxTableRows == 3

BigTableRows == 160

NotificationRow(id, recipient_id, created_at) ==
    [id |-> id, recipient_id |-> recipient_id, message |-> "emergency",
     status |-> "pending", created_at |-> created_at]

SmallTables ==
    UNION {{[i \in 1..n |-> NotificationRow(i, who[i], at[i])] :
               who \in [1..n -> SubscriberIds],
               at \in {f \in [1..n -> 1..n] : \A i, j \in 1..n : f[i] = f[j] => i = j}} :
           n \in 0..MaxTableRows}

BigTable ==
    [i \in 1..BigTableRows |->
        NotificationRow(i, IF i % 3 = 0 THEN "s2" ELSE "s1", (i * 7) % 163)]

InitInbox ==
    /\ emergencies = <<>>
    /\ status_updates = <<>>
    /\ published = <<>>
    /\ req = IdleReq
    /\ upd = NoUpdate
    /\ now = 0
    /\ nreports = 0
    /\ nupdates = 0
    /\ subscriptions = <<>>
    /\ notifications \in SmallTables \cup {BigTable}
    /\ ws = NoSocket
    /\ inbox = NoInbox
    /\ enrich = NoGather
    /\ rs_in = NoResolve
    /\ rs_out = None
    /\ mini = NoMinimalRequest
    /\ http = NoRequest

NextInbox == \E subscriber_id \in SubscriberIds : GetNotifications(subscriber_id)

SpecInbox == InitInbox /\ [][NextInbox]_vars

(* get_emergency_context on its own, for every emergency type *)
EnrichTypes == ClassifierTypes \cup {"POLICE"}

InitEnrich ==
    /\ emergencies = <<>>
    /\ status_updates = <<>>
    /\ published = <<>>
    /\ req = IdleReq
    /\ upd = NoUpdate
    /\ now = 0
    /\ nreports = 0
    /\ nupdates = 0
    /\ subscriptions = <<>>
    /\ notifications = <<>>
    /\ ws = NoSocket
    /\ inbox = NoInbox
    /\ enrich \in {[NoGather EXCEPT !.pc = "weather", !.emergency_type = t] :
                       t \in EnrichTypes}
    /\ rs_in = NoResolve
    /\ rs_out = None
    /\ mini = NoMinimalRequest
    /\ http = NoRequest

NextEnrich ==
    \/ CallProvider
    \/ SkipProvider
    \/ \E ok \in BOOLEAN : ProviderAnswers(ok)
    \/ Join

SpecEnrich == InitEnrich /\ [][NextEnrich]_vars

(* the event loop keeps running the coroutines; nothing makes a provider   *)
(* answer                                                                  *)
SpecEnrichFair ==
    SpecEnrich /\ WF_vars(CallProvider) /\ WF_vars(SkipProvider) /\ WF_vars(Join)

(* the minimal server on its own, for every request *)
InitMinimal ==
    /\ emergencies = <<>>
    /\ status_updates = <<>>
    /\ published = <<>>
    /\ req = IdleReq
    /\ upd = NoUpdate
    /\ now = 0
    /\ nreports = 0
    /\ nupdates = 0
    /\ subscriptions = <<>>
    /\ notifications = <<>>
    /\ ws = NoSocket
    /\ inbox = NoInbox
    /\ enrich = NoGather
    /\ rs_in = NoResolve
    /\ rs_out = None
    /\ mini \in MinimalRequests
    /\ http = NoRequest

NextMinimal == MinimalReportEmergency

SpecMinimal == InitMinimal /\ [][NextMinimal]_vars

(* the router of main.py on its own *)
NextRouting ==
    \E line \in RequestLines, path \in RequestPaths : Route(line[1], line[2], path)

InitRouting ==
    /\ AppInit
    /\ rs_in = NoResolve
    /\ rs_out = None

SpecRouting == InitRouting /\ [][NextRouting]_vars

----------------------------------------------------------------------------
(* Properties *)

RecognisedTypes == {"FIRE", "MEDICAL", "CRIME", "NATURAL_DISASTER", "TRAFFIC"}

(* the rule table and the escalation table, as the specification gives them *)
TableBase ==
    [t \in RecognisedTypes |->
        CASE t = "FIRE" -> {"fire"}
          [] t = "MEDICAL" -> {"medical"}
          [] t = "CRIME" -> {"police"}
          [] t = "NATURAL_DISASTER" -> {"rescue", "fire", "medical"}
          [] t = "TRAFFIC" -> {"police", "medical"}]

TableEscalation ==
    [t \in RecognisedTypes |->
        CASE t = "FIRE" -> {"rescue", "medical"}
          [] t = "MEDICAL" -> {"rescue"}
          [] t = "CRIME" -> {"medical"}
          [] OTHER -> {}]

(* C1: for a recognised type the result of get_required_services is true   *)
(* exactly on the base table's services and, only when the confidence is   *)
(* strictly above 0.8, on the escalation table's; false everywhere else.   *)
C1_ResolverFollowsTables ==
    (rs_out /= None /\ rs_in.emergency_type \in RecognisedTypes) =>
        LET t == rs_in.emergency_type
            expected == TableBase[t] \cup
                        (IF rs_in.confidence > 80 THEN TableEscalation[t] ELSE {})
        IN  \A s \in {"fire", "medical", "police", "rescue"} :
                rs_out[1][s] = (s \in expected)

(* C1 witness: FIRE at confidence exactly 0.8 has been resolved to fire only *)
C1_Witness ==
    /\ rs_in = [emergency_type |-> "FIRE", confidence |-> 80]
    /\ rs_out = Some([fire |-> TRUE, medical |-> FALSE, police |-> FALSE,
                      rescue |-> FALSE])

(* C2: get_required_services is defined for every type string and every    *)
(* confidence, its result has exactly the keys fire, medical, police and   *)
(* rescue, each a boolean, and for an unrecognised type all four are       *)
(* false whatever the confidence.                                          *)
C2_ResolverTotalFixedKeys ==
    /\ rs_out = None => ENABLED Resolve
    /\ rs_out /= None =>
         /\ DOMAIN rs_out[1] = {"fire", "medical", "police", "rescue"}
         /\ \A s \in DOMAIN rs_out[1] : rs_out[1][s] \in BOOLEAN
         /\ rs_in.emergency_type \notin RecognisedTypes =>
               \A s \in DOMAIN rs_out[1] : rs_out[1][s] = FALSE

(* C2 witness: OTHER at confidence 0.95 has been resolved to nothing *)
C2_Witness ==
    /\ rs_in = [emergency_type |-> "OTHER", confidence |-> 95]
    /\ rs_out = Some([fire |-> FALSE, medical |-> FALSE, police |-> FALSE,
                      rescue |-> FALSE])

(* the report in flight was submitted with neither text nor audio *)
NothingSubmitted == req.audio = "None" /\ req.text \in {"None", ""}

(* the request in flight has written nothing and published nothing *)
NothingWritten == emergencies = req.rows_before /\ published = req.events_before

(* C3: a report with neither text nor audio is answered with the client    *)
(* error (status 400), before any provider call or database write, and     *)
(* leaves no Emergency record and no event.                                *)
C3_InvalidInputIsClientError ==
    (req.pc = "done" /\ NothingSubmitted) =>
        /\ req.status = 400
        /\ req.stages = <<>>
        /\ NothingWritten

(* C4: when the Classification Provider fails the request ends with an     *)
(* error status, the Emergency records are those there were before the     *)
(* request, and no event has been published.                               *)
C4_ClassificationFailureIsFatal ==
    req.failed = "classify" =>
        /\ req.pc = "done"
        /\ req.status >= 400
        /\ NothingWritten

(* C4 witness: the classifier failed on the second report, the first       *)
(* having been recorded                                                    *)
C4_Witness ==
    /\ req.failed = "classify"
    /\ req.pc = "done"
    /\ Len(emergencies) = 1

PastTranscription ==
    req.pc \in {"detect", "translate", "classify", "services", "context",
                "persist", "publish"}

C6_AudioTakesPrecedence ==
    (req.text \notin {"None", ""} /\ req.audio = "bytes" /\ req.pc = "detect") =>
        /\ req.stages = <<"transcribe">>
        /\ req.ctext \in TranscribeResults

(* C7: with a location, a failed sub-query is replaced by its default     *)
(* (weather conditions "unknown"; traffic congestion "unknown" and no      *)
(* incidents; empty facility lists) and the others keep their data; the    *)
(* enrichment never raises, and unless the commit itself fails the         *)
(* request ends with status 200 and a record holding that context and the  *)
(* other fields.                                                           *)
C7_EnrichmentDegradesPerSubQuery ==
    req.context /= None =>
        LET ctx == req.context[1]
        IN  /\ req.location = "loc"
            /\ {"weather", "traffic"} \subseteq DOMAIN ctx
            /\ (ctx["weather"].conditions = "unknown") <=> ("weather" \in req.degraded)
            /\ (ctx["weather"].conditions = "data") <=> ("weather" \notin req.degraded)
            /\ (ctx["traffic"].congestion_level = "unknown"
                   /\ ctx["traffic"].incidents = <<>>) <=> ("traffic" \in req.degraded)
            /\ (ctx["traffic"].congestion_level = "data"
                   /\ ctx["traffic"].incidents /= <<>>) <=> ("traffic" \notin req.degraded)
            /\ \A k \in DOMAIN ctx \ {"weather", "traffic"} :
                   (ctx[k] = <<>>) <=> ("facilities" \in req.degraded)
            /\ req.failed \in {"None", "commit"}
            /\ req.pc \in {"persist", "publish", "done"}
            /\ (req.pc = "done" /\ req.failed = "None") =>
                   /\ req.status = 200
                   /\ Len(emergencies) = Len(req.rows_before) + 1
                   /\ LET e == emergencies[Len(emergencies)]
                      IN  /\ e.response_plan.details.context = req.context
                          /\ e.emergency_type \in ClassifierTypes
                          /\ e.priority_level \in {"HIGH", "MEDIUM", "LOW"}
                          /\ e.response_plan.details.original_text \notin {"None", ""}
                          /\ e.response_plan.details.location = "loc"
                          /\ DOMAIN e.response_plan.details.required_services =
                                 {"fire", "medical", "police", "rescue"}

(* C7 witness: the weather sub-query alone failed and the report was       *)
(* answered with status 200, traffic and facilities data kept              *)
C7_Witness ==
    /\ req.pc = "done" /\ req.status = 200
    /\ req.degraded = {"weather"}
    /\ req.context /= None
    /\ req.context[1]["weather"].conditions = "unknown"
    /\ req.context[1]["traffic"].congestion_level = "data"
    /\ req.context[1]["fire_stations"] /= <<>>
    /\ emergencies[Len(emergencies)].response_plan.details.context = req.context

(* C8: a report answered with status 200 has added exactly one Emergency   *)
(* row, with status ACTIVE and no actual_response_time, and has then made  *)
(* exactly one send_notification call on channel "emergency" carrying the  *)
(* row's id, type, priority and details; the row is committed before the   *)
(* call is made.                                                           *)
C8_SuccessPersistsThenPublishes ==
    /\ (req.pc = "done" /\ req.status = 200) =>
          LET n == Len(req.rows_before)
              m == Len(req.events_before)
          IN  /\ Len(emergencies) = n + 1
              /\ SubSeq(emergencies, 1, n) = req.rows_before
              /\ Len(published) = m + 1
              /\ SubSeq(published, 1, m) = req.events_before
              /\ LET e == emergencies[n + 1]
                     ev == published[m + 1]
                 IN  /\ e.status = "ACTIVE"
                     /\ e.actual_response_time = None
                     /\ \A i \in 1..n : emergencies[i].id /= e.id
                     /\ ev.channel = "emergency"
                     /\ ev.data.emergency_id = e.id
                     /\ ev.data.type = e.emergency_type
                     /\ ev.data.priority = e.priority_level
                     /\ ev.data.details = e.response_plan.details
              /\ \E i, j \in 1..Len(req.stages) :
                     /\ i < j
                     /\ req.stages[i] = "commit"
                     /\ req.stages[j] = "send_notification"
    /\ req.pc = "publish" =>
          /\ Len(emergencies) = Len(req.rows_before) + 1
          /\ published = req.events_before

(* C8 witness: the second report has been answered with status 200 *)
C8_Witness ==
    /\ req.pc = "done" /\ req.status = 200
    /\ Len(emergencies) = 2
    /\ Len(published) = 2

(* the number of send_notification calls made for accepted status updates *)
AcceptedTransitions ==
    Cardinality({i \in 1..Len(published) : published[i].channel = "status_update"})

C10_OneAuditRowPerTransition ==
    /\ Len(status_updates) = AcceptedTransitions
    /\ upd.code = 200 =>
          /\ status_updates /= <<>>
          /\ LET a == status_updates[Len(status_updates)]
             IN  /\ a.emergency_id = upd.id
                 /\ a.old_status = upd.old_status
                 /\ a.new_status = upd.status
                 /\ a.notes = upd.notes

(* the step is an update_emergency call that was answered 200 *)
UpdateAccepted == nupdates' /= nupdates /\ upd'.code = 200

(* C11: an accepted update to RESOLVED stores the whole minutes elapsed    *)
(* from the emergency's creation to the update, and a response time that   *)
(* is set is never changed by a later step.                                *)
C11_ResponseTimeSetOnce ==
    [][/\ (UpdateAccepted /\ upd'.status = "RESOLVED") =>
              LET e == emergencies[upd'.id]
              IN  emergencies'[upd'.id].actual_response_time =
                      <<((now - e.created_at) * TickSeconds) \div 60>>
       /\ \A i \in 1..Len(emergencies) :
              emergencies[i].actual_response_time /= None =>
                  emergencies'[i].actual_response_time =
                      emergencies[i].actual_response_time]_vars

C13_UnknownIdChangesNothing ==
    [][(/\ nupdates' /= nupdates
        /\ \A i \in 1..Len(emergencies) : emergencies[i].id /= upd'.id) =>
           /\ upd'.code = 404
           /\ emergencies' = emergencies
           /\ status_updates' = status_updates
           /\ published' = published]_vars

(* C13 witness: an update of an unknown id was answered 404 while an       *)
(* emergency was on record                                                 *)
C13_Witness ==
    /\ upd.code = 404
    /\ Len(emergencies) >= 1
    /\ \A i \in 1..Len(emergencies) : emergencies[i].id /= upd.id

(* the positions in the notification log of the accepted updates of one    *)
(* emergency                                                               *)
StatusEventsOf(id) ==
    {k \in 1..Len(published) :
        /\ published[k].channel = "status_update"
        /\ published[k].data.emergency_id = id}

Matching(event_type) ==
    {i \in 1..Len(subscriptions) : subscriptions[i].notification_type = event_type}

(* the step is a send_notification call *)
Published == Len(published') = Len(published) + 1

(* the Notification rows the step has added *)
NewNotifications ==
    {i \in 1..Len(notifications') : i > Len(notifications)}

(* C15: a publish creates, for each stored subscription whose              *)
(* notification_type is the event's type, exactly one Notification, in     *)
(* status pending and addressed to that subscription's subscriber, and no  *)
(* other: as many new Notifications as matching subscriptions.             *)
C15_OnePendingNotificationPerMatch ==
    [][Published =>
          LET ev == published'[Len(published')]
          IN  /\ Cardinality(NewNotifications) = Cardinality(Matching(ev.channel))
              /\ \A i \in Matching(ev.channel) :
                     \E k \in NewNotifications :
                         /\ notifications'[k].recipient_id =
                                subscriptions[i].subscriber_id
                         /\ notifications'[k].status = "pending"]_vars

(* the subscriber has a subscription to the type of a published event *)
HasMatchingSubscription(subscriber_id) ==
    \E i \in 1..Len(subscriptions), k \in 1..Len(published) :
        /\ subscriptions[i].subscriber_id = subscriber_id
        /\ subscriptions[i].notification_type = published[k].channel

(* C16: a subscriber with no subscription to the type of any published     *)
(* event has no Notification, in the table and in the answer of            *)
(* get_notifications.                                                      *)
C16_NoNotificationWithoutMatch ==
    \A subscriber_id \in SubscriberIds :
        ~HasMatchingSubscription(subscriber_id) =>
            /\ \A k \in 1..Len(notifications) :
                   notifications[k].recipient_id /= subscriber_id
            /\ inbox.subscriber_id = subscriber_id => inbox.rows = <<>>

(* C16 witness: s1 is subscribed to status updates only, an emergency      *)
(* event has been published and no status update, and s1 has read its      *)
(* notifications                                                           *)
C16_Witness ==
    /\ \E i \in 1..Len(subscriptions) :
          /\ subscriptions[i].subscriber_id = "s1"
          /\ subscriptions[i].notification_type = "status_update"
    /\ published /= <<>>
    /\ \A k \in 1..Len(published) : published[k].channel = "emergency"
    /\ inbox.subscriber_id = "s1"
    /\ inbox.rows = <<>>

(* C18: a publish of an event matching a subscription on the websocket     *)
(* channel leaves that subscriber a Notification that is delivered if the  *)
(* subscriber's connection is registered at that time and pending if not.  *)
C18_LiveDeliveryFollowsConnection ==
    [][Published =>
          LET ev == published'[Len(published')]
          IN  \A i \in Matching(ev.channel) :
                  subscriptions[i].channel = "websocket" =>
                      \E k \in NewNotifications :
                          /\ notifications'[k].recipient_id =
                                 subscriptions[i].subscriber_id
                          /\ notifications'[k].status =
                                 IF subscriptions[i].subscriber_id \in RegisteredConnections
                                 THEN "delivered"
                                 ELSE "pending"]_vars

(* C19: a client whose websocket call was handled last is registered, the  *)
(* call having raised nothing.                                             *)
C19_ConnectRegisters ==
    ws.client_id /= "None" =>
        /\ ws.raised = "None"
        /\ ws.client_id \in RegisteredConnections

(* C20: when the send_notification call of a report fails, the report is   *)
(* still answered 200 and the failure is recorded as status failed on the  *)
(* Notification of every subscriber the event matches.                     *)
C20_DeliveryFailureIsRecorded ==
    (req.pc = "done" /\ req.notified = <<FALSE>>) =>
        /\ req.status = 200
        /\ \A i \in Matching("emergency") :
               \E k \in 1..Len(notifications) :
                   /\ notifications[k].recipient_id = subscriptions[i].subscriber_id
                   /\ notifications[k].status = "failed"

(* the rows of the table addressed to the subscriber *)
RowsFor(subscriber_id) ==
    {k \in 1..Len(notifications) : notifications[k].recipient_id = subscriber_id}

(* C21: the answer of get_notifications holds only rows of the table       *)
(* addressed to the subscriber, each once, most recent first, at most 100  *)
(* of them and then the 100 most recent; the call leaves the table as it   *)
(* was.                                                                    *)
C21_RetrievalIsFilteredOrderedBounded ==
    [][/\ notifications' = notifications
       /\ inbox'.subscriber_id /= "None" =>
             LET rows == inbox'.rows
                 mine == RowsFor(inbox'.subscriber_id)
                 got == {k \in mine : \E i \in 1..Len(rows) : rows[i] = notifications[k]}
             IN  /\ \A i \in 1..Len(rows) :
                        \E k \in mine : rows[i] = notifications[k]
                 /\ \A i, j \in 1..Len(rows) :
                        /\ i < j => rows[i].created_at >= rows[j].created_at
                        /\ rows[i].id = rows[j].id => i = j
                 /\ Len(rows) = IF Cardinality(mine) <= 100 THEN Cardinality(mine) ELSE 100
                 /\ \A k \in mine \ got, g \in got :
                        notifications[k].created_at <= notifications[g].created_at]_vars

(* C21 witness: the subscriber has more than 100 notifications and was     *)
(* answered with 100                                                       *)
C21_Witness ==
    /\ inbox.subscriber_id = "s1"
    /\ Cardinality(RowsFor("s1")) > 100
    /\ Len(inbox.rows) = 100

(* C22: when the detected language of a report is not English the          *)
(* classifier works on the translation, and the record of the report       *)
(* keeps the text as it was submitted as original_text and the detected    *)
(* language as original_language.                                          *)
C22_RecordKeepsOriginalText ==
    (req.pc = "done" /\ req.status = 200 /\ req.lang \notin {"None", "en"}) =>
        LET details == emergencies[Len(emergencies)].response_plan.details
        IN  /\ req.ctext = TranslatedText(req.text)
            /\ details.original_text = req.text
            /\ "original_language" \in DOMAIN details
            /\ details["original_language"] = req.lang

(* C23: every get_emergency_context call returns, and with it the report   *)
(* request that made it: a sub-query whose provider never answers is       *)
(* ended by its own timeout.                                               *)
C23_EnrichmentAlwaysReturns == <>(enrich.pc = "returned")

(* the elements of a sequence *)
Range(q) == {q[i] : i \in 1..Len(q)}

(* C25: the sub-queries run concurrently, so that every sub-query that     *)
(* calls a provider has made its call by the time the first answer         *)
(* arrives; the context is assembled when all three have ended and is the  *)
(* one their results determine, whatever the order of the answers.         *)
C25_SubQueriesRunConcurrently ==
    /\ enrich.answered /= <<>> =>
           {q \in Range(SubQueries) : CallsProvider(q, enrich.emergency_type)}
               \subseteq Range(enrich.started)
    /\ enrich.pc = "returned" =>
           /\ Len(enrich.ok) = 3
           /\ enrich.context[1]["weather"] = GetWeatherData(enrich.ok[1])
           /\ enrich.context[1]["traffic"] = GetTrafficData(enrich.ok[2])
           /\ \A k \in FacilityKeys(enrich.emergency_type) :
                  enrich.context[1][k] = GetFacilityList(enrich.ok[3])

(* the calls a request makes when none of them fails, in the order of the  *)
(* specification: the optional ones are those its input and its detected   *)
(* language ask for                                                        *)
ExpectedStages(r) ==
    (IF Truthy(r.audio_data) /\ ~Truthy(r.text) THEN <<"transcribe">> ELSE <<>>)
    \o <<"detect_language">>
    \o (IF r.lang \notin {"None", "en"} THEN <<"translate">> ELSE <<>>)
    \o <<"classify", "get_required_services">>
    \o (IF Truthy(r.location) THEN <<"get_emergency_context">> ELSE <<>>)
    \o <<"commit", "send_notification">>

(* C24: the calls of a request are made in the order transcription,        *)
(* language detection, translation, classification, service resolution,    *)
(* enrichment, commit, notification, none left out that its input asks     *)
(* for; a call that fails is the last one made; a request answered 200     *)
(* has made them all.                                                      *)
C24_StagesRunInOrder ==
    LET expected == ExpectedStages(req)
        n == Len(req.stages)
    IN  /\ n <= Len(expected)
        /\ req.stages = SubSeq(expected, 1, n)
        /\ req.failed /= "None" =>
               /\ req.pc = "done"
               /\ req.stages[n] = req.failed
        /\ (req.pc = "done" /\ req.status = 200) => req.stages = expected

(* C24 witness: a Spanish text report with a location has been answered    *)
(* 200 after seven calls, translation and enrichment among them            *)
C24_Witness ==
    /\ req.pc = "done" /\ req.status = 200
    /\ req.stages = <<"detect_language", "translate", "classify",
                      "get_required_services", "get_emergency_context",
                      "commit", "send_notification">>


(* the minimal server has answered 200 *)
MinimalOk == mini.response /= None /\ mini.response[1].status = 200

MinimalDetails == mini.response[1].response_plan.details

(* C26: the minimal server's answer is FIRE if a fire keyword occurs in   *)
(* the text it classified, otherwise MEDICAL if a medical keyword occurs,  *)
(* otherwise CRIME if a crime keyword occurs, otherwise OTHER; the         *)
(* priority is HIGH except for OTHER without an emergency keyword, which   *)
(* is MEDIUM; and each report of test_multilang_specific.py, sent as text, *)
(* is answered with the type its test expects.                             *)
C26_MinimalClassifierPrecedence ==
    MinimalOk =>
        LET seen == mini.translated_text.words
            type == mini.response[1].emergency_type
        IN  /\ seen \cap fire_keywords /= {} => type = "FIRE"
            /\ seen \cap fire_keywords = {} /\ seen \cap medical_keywords /= {} =>
                   type = "MEDICAL"
            /\ /\ seen \cap (fire_keywords \cup medical_keywords) = {}
               /\ seen \cap crime_keywords /= {}
               => type = "CRIME"
            /\ seen \cap (fire_keywords \cup medical_keywords \cup crime_keywords) = {} =>
                   type = "OTHER"
            /\ mini.response[1].priority_level =
                   IF type = "OTHER" /\ seen \cap emergency_keywords = {}
                   THEN "MEDIUM" ELSE "HIGH"
            /\ mini.response[1].response_plan.type = type
            /\ mini.response[1].response_plan.priority = mini.response[1].priority_level
            /\ \A c \in TestCases :
                   /\ mini.audio = "None"
                   /\ mini.text = c.text
                   /\ c.expected_type /= "None"
                   => type = c.expected_type

(* C26 witness: the Spanish heart-attack report of the tests, whose        *)
(* translation holds a medical and a crime keyword, answered MEDICAL, and  *)
(* the traffic accident answered OTHER is the other end of the precedence  *)
C26_Witness ==
    /\ MinimalOk
    /\ mini.audio = "None"
    /\ mini.text.raw = "Emergencia m{e9}dica! Ataque al coraz{f3}n!"
    /\ mini.translated_text.words \cap medical_keywords /= {}
    /\ mini.translated_text.words \cap crime_keywords /= {}
    /\ mini.response[1].emergency_type = "MEDICAL"
    /\ mini.response[1].priority_level = "HIGH"

(* has an indicator word of no language and none of the scripts tested *)
NoIndicator(text) ==
    /\ text.words \cap (SpanishIndicators \cup FrenchIndicators \cup GermanIndicators
                        \cup ItalianIndicators \cup ChineseMarkers) = {}
    /\ ~text.kana /\ ~text.han /\ ~text.han_rare

(* C27: a text report is answered with the code of its language as         *)
(* original_language: "it" when an Italian indicator word occurs in it,    *)
(* "ja" when it holds hiragana or katakana, "zh" when it holds Chinese     *)
(* characters and one of the Chinese marker words, "en" when it matches    *)
(* no indicator; so each report of the tests gets the code of the language *)
(* its test names.                                                         *)
C27_LanguageCodeOfReport ==
    MinimalOk /\ mini.audio = "None" =>
        LET text == mini.text
            lang == MinimalDetails.original_language
        IN  /\ text.words \cap ItalianIndicators /= {} => lang = "it"
            /\ text.kana => lang = "ja"
            /\ /\ text.han \/ text.han_rare
               /\ text.words \cap ChineseMarkers /= {}
               => lang = "zh"
            /\ NoIndicator(text) => lang = "en"
            /\ \A c \in TestCases : text = c.text => lang = c.language

(* C28: the required_services of the minimal server's answer are those     *)
(* get_required_services returns for the answer's type at confidence 0.95. *)
C28_MinimalServicesMatchResolver ==
    MinimalOk =>
        MinimalDetails.required_services =
            GetRequiredServices(mini.response[1].emergency_type,
                                MinimalDetails.confidence)

(* C29: an accepted update that carries no notes leaves the notes, type,   *)
(* priority, location and response plan of every emergency as they were.   *)
C29_UpdateWithoutNotesKeepsNotes ==
    [][UpdateAccepted /\ upd'.notes = "None" =>
           /\ Len(emergencies') = Len(emergencies)
           /\ \A i \in 1..Len(emergencies) :
                  /\ emergencies'[i].notes = emergencies[i].notes
                  /\ emergencies'[i].emergency_type = emergencies[i].emergency_type
                  /\ emergencies'[i].priority_level = emergencies[i].priority_level
                  /\ emergencies'[i].location = emergencies[i].location
                  /\ emergencies'[i].response_plan = emergencies[i].response_plan]_vars

(* C30: a GET of /emergency/history is given to get_emergency_history and  *)
(* a GET of /emergency/stats to get_emergency_stats, never to the lookup   *)
(* route get_emergency_status.                                             *)
C30_HistoryAndStatsAreReachable ==
    http.scope = "http" /\ http.method = "GET" =>
        /\ http.path = <<"emergency", "history">> =>
               http.called /\ http.endpoint = "get_emergency_history"
        /\ http.path = <<"emergency", "stats">> =>
               http.called /\ http.endpoint = "get_emergency_stats"

====
